---- MODULE Spec2Model ----
(***************************************************************************)
(* Client import pipeline of daml-app: DataCleaner (row normalisation and  *)
(* identity key), CSVImportService (streaming intake, batching, intra-batch*)
(* dedupe, conditional upsert) and the Client collection it writes to.     *)
(*                                                                         *)
(* Values.  A JavaScript value that may be null is a tuple: <<>> is null,  *)
(* <<v>> is the value v, <<0, 0>> is a field that is missing from a stored *)
(* document.  Text is a sequence of one-character strings, so that trim,   *)
(* toLowerCase, replace(/\D/g,"") and includes() are computed.  A date is a*)
(* number of the calendar IsoDates (0 is the epoch, new Date(0)).          *)
(***************************************************************************)
EXTENDS Integers, Sequences, FiniteSets, TLC

VARIABLES
  store,      \* Client collection: clientKey -> document
  now,        \* the wall clock read by new Date()
  svc,        \* the CSVImportService instance: processedCount, errorCount, batchSize
  run,        \* per importFromFile call: stream, batch, promise, pending flushes
  faults,     \* store and source failures still to be injected
  exp,        \* experiment on one operation: its inputs and its outcomes
  loans,      \* Loan collection, in cursor order
  rb,         \* the POST /rebuild-from-loans request: its phase and its operations
  me          \* the GET /api/clients/me request: its phase, what it read, its upsert

vars == <<store, now, svc, run, faults, exp, loans, rb, me>>

-----------------------------------------------------------------------------
(* Bounds of the model *)

MaxRows == 3        \* rows of a source file
MaxTime == 2        \* clock ticks
MaxFaults == 1      \* injected store and source failures per behaviour
MaxBatch == 2       \* largest batchSize option
MaxDate == 2        \* latest statement date of the calendar in use
MaxConcRows == 2    \* rows of a source file when two runs overlap
MaxLoans == 2       \* documents of the Loan collection

-----------------------------------------------------------------------------
(* JavaScript values *)

Null == <<>>
Missing == <<0, 0>>
Some(v) == <<v>>
IsValue(x) == Len(x) = 1
Val(x) == x[1]

\* a || b for text: null and "" are falsy
OrS(a, b) == IF IsValue(a) /\ Val(a) # <<>> THEN a ELSE b
\* a ?? b
Coalesce(a, b) == IF IsValue(a) THEN a ELSE b
\* Number(a || 0)
NumOr0(a) == IF IsValue(a) THEN Val(a) ELSE 0

Digits == {"0", "1", "2", "3", "4", "5", "6", "7", "8", "9"}

Upper == <<"A", "B", "C", "D", "E", "F", "G", "H", "I", "J", "K", "L", "M",
           "N", "O", "P", "Q", "R", "S", "T", "U", "V", "W", "X", "Y", "Z">>
LowerOf == <<"a", "b", "c", "d", "e", "f", "g", "h", "i", "j", "k", "l", "m",
             "n", "o", "p", "q", "r", "s", "t", "u", "v", "w", "x", "y", "z">>

LowerChar(c) ==
  IF \E i \in 1..Len(Upper) : Upper[i] = c
    THEN LowerOf[CHOOSE i \in 1..Len(Upper) : Upper[i] = c]
    ELSE c

\* String.prototype.toLowerCase
ToLower(s) == [i \in 1..Len(s) |-> LowerChar(s[i])]

\* String.prototype.trim
RECURSIVE Trim(_)
Trim(s) ==
  IF s = <<>> THEN s
  ELSE IF Head(s) = " " THEN Trim(Tail(s))
  ELSE IF s[Len(s)] = " " THEN Trim(SubSeq(s, 1, Len(s) - 1))
  ELSE s

\* String.prototype.includes
Includes(s, w) ==
  \E i \in 1..(Len(s) - Len(w) + 1) : SubSeq(s, i, i + Len(w) - 1) = w

\* toISOString().slice(0, 10) of the dates of the calendar
IsoDates == <<"1970-01-01", "2024-01-01", "2024-02-01", "2024-03-01",
              "2024-04-01", "2024-05-01", "2024-06-01", "2024-07-01">>
IsoDate(d) == IsoDates[d + 1]

-----------------------------------------------------------------------------
(* DataCleaner *)

\* a cell that is not a string: cleanRow passes it through untrimmed (line 6)
NonText == <<"[object Object]">>

\* a cell that parseDate cannot parse
BadDate == -1
\* a numeric cell that Number() turns into NaN
NaNCell == -999

TextColumns == {"fullName", "borrowerName", "mobile", "landline", "email",
                "address", "statusName", "status"}
NumColumns == {"clientBalance", "outstanding", "balanceCol", "amortDue",
               "interest", "penalty"}
DateColumns == {"dob", "stmtDate", "reportDate", "asAt", "nextDue"}

parseDate(v) == IF IsValue(v) /\ Val(v) >= 0 THEN v ELSE Null

cleanText(v) == IF IsValue(v) /\ Trim(Val(v)) # <<>> THEN Some(Trim(Val(v))) ELSE Null

cleanNumber(v) == IF ~IsValue(v) THEN Null ELSE IF Val(v) = NaNCell THEN Some(0) ELSE v

\* a row holds the columns its extract has
cleanRow(row) ==
  [c \in DOMAIN row |->
     IF c \in NumColumns THEN cleanNumber(row[c])
     ELSE IF c \in DateColumns THEN parseDate(row[c])
     ELSE cleanText(row[c])]

\* csvData["<column>"]: undefined, like null, when the row has no such column
Cell(csvData, c) == IF c \in DOMAIN csvData THEN csvData[c] ELSE Null

normalizePhone(phone) ==
  IF ~(IsValue(phone) /\ Val(phone) # <<>>) THEN Null
  ELSE LET digits == SelectSeq(Val(phone), LAMBDA c : c \in Digits)
       IN IF Len(digits) > 0 THEN Some(digits) ELSE Null

normalizeEmail(email) ==
  IF ~(IsValue(email) /\ Val(email) # <<>>) THEN Null
  ELSE Some(ToLower(Trim(Val(email))))

makeClientKey(csvData) ==
  LET email == normalizeEmail(Cell(csvData, "email"))
      phone == normalizePhone(OrS(Cell(csvData, "mobile"), Cell(csvData, "landline")))
      name == ToLower(Trim(Val(OrS(Cell(csvData, "fullName"), OrS(Cell(csvData, "borrowerName"), Some(<<>>))))))
      dob == IF IsValue(Cell(csvData, "dob")) THEN IsoDate(Val(Cell(csvData, "dob"))) ELSE "nodob"
  IN IF IsValue(phone) THEN <<"phone:">> \o Val(phone)
     ELSE IF IsValue(email) /\ Val(email) # <<>> THEN <<"email:">> \o Val(email)
     ELSE <<"name:">> \o name \o <<"|dob:", dob>>

\* mapToClientSchema throws: with no phone and no email, line 96 calls .trim()
\* on the name cell, a TypeError when that cell is not a string
Throws(csvData) ==
  /\ ~IsValue(normalizePhone(OrS(Cell(csvData, "mobile"), Cell(csvData, "landline"))))
  /\ ~IsValue(normalizeEmail(Cell(csvData, "email")))
  /\ OrS(Cell(csvData, "fullName"), OrS(Cell(csvData, "borrowerName"), Some(<<>>))) = Some(NonText)

computeBalance(csvData) ==
  LET direct == Coalesce(Cell(csvData, "clientBalance"),
                  Coalesce(Cell(csvData, "outstanding"), Coalesce(Cell(csvData, "balanceCol"), Null)))
  IN IF IsValue(direct) THEN NumOr0(direct)
     ELSE IF IsValue(Cell(csvData, "amortDue")) THEN NumOr0(Cell(csvData, "amortDue"))
     ELSE NumOr0(Cell(csvData, "interest")) + NumOr0(Cell(csvData, "penalty"))

clearedWords == { <<"c","l","e","a","r","e","d">>, <<"c","l","o","s","e","d">>,
                  <<"p","a","i","d">>, <<"s","e","t","t","l","e","d">>,
                  <<"c","o","m","p","l","e","t","e","d">> }
extendedWords == { <<"e","x","t","e","n","d","e","d">>,
                   <<"r","e","s","c","h","e","d","u","l","e","d">>,
                   <<"r","e","s","t","r","u","c","t","u","r","e","d">>,
                   <<"r","o","l","l","o","v","e","r">> }

StUnknown == <<"U","n","k","n","o","w","n">>

classifyStatus(loanStatusRaw) ==
  [isCleared |-> \E s \in {ToLower(Val(OrS(loanStatusRaw, Some(StUnknown))))} :
                   \E w \in clearedWords : Includes(s, w),
   isExtended |-> \E s \in {ToLower(Val(OrS(loanStatusRaw, Some(StUnknown))))} :
                    \E w \in extendedWords : Includes(s, w)]

pickStatementDate(csvData) ==
  Coalesce(Cell(csvData, "stmtDate"),
    Coalesce(Cell(csvData, "reportDate"), Coalesce(Cell(csvData, "asAt"), Coalesce(Cell(csvData, "nextDue"), Null))))

\* a mapping that leaves the computed balance of a cleared loan as it is
ForceClearedForgotten(isCleared, balance) == balance

\* if (isCleared) balance = 0
ForceCleared(isCleared, balance) == IF isCleared THEN 0 ELSE balance

mapToClientSchema(csvData) ==
  LET loanStatus == OrS(Cell(csvData, "statusName"), OrS(Cell(csvData, "status"), Some(StUnknown)))
      cls == classifyStatus(loanStatus)
      balance == ForceCleared(cls.isCleared, computeBalance(csvData))
      statusBucket == IF cls.isExtended THEN "extended"
                      ELSE IF cls.isCleared THEN "cleared" ELSE "balance"
  IN [clientKey |-> makeClientKey(csvData),
      fullName |-> OrS(Cell(csvData, "fullName"), OrS(Cell(csvData, "borrowerName"), Some(<<>>))),
      phone |-> normalizePhone(OrS(Cell(csvData, "mobile"), Cell(csvData, "landline"))),
      email |-> normalizeEmail(Cell(csvData, "email")),
      address |-> OrS(Cell(csvData, "address"), Null),
      dateOfBirth |-> Coalesce(Cell(csvData, "dob"), Null),
      loanStatus |-> loanStatus,
      isExtended |-> Some(cls.isExtended),
      statusBucket |-> Some(statusBucket),
      balance |-> Some(balance),
      statementDate |-> pickStatementDate(csvData)]

-----------------------------------------------------------------------------
(* CSVImportService: intra-batch dedupe and the conditional upsert *)

\* r.statementDate ? new Date(r.statementDate).getTime() : 0
DateOr0(d) == IF IsValue(d) THEN Val(d) ELSE 0

\* a test that compares the dates only
ReplacesIfLater(r, current) ==
  DateOr0(r.statementDate) > DateOr0(current.statementDate)

\* the test of line 84: r replaces the record kept for its key
Replaces(r, current) ==
  \/ DateOr0(r.statementDate) > DateOr0(current.statementDate)
  \/ /\ DateOr0(r.statementDate) = DateOr0(current.statementDate)
     /\ NumOr0(r.balance) > NumOr0(current.balance)

\* a dedupe that keeps every record
MapSetAppends(kept, r) == Append(kept, r)

\* map.set(r.clientKey, r): a Map keeps the position of a key's first insertion
MapSet(kept, r) ==
  IF \E j \in 1..Len(kept) : kept[j].clientKey = r.clientKey
    THEN LET j == CHOOSE i \in 1..Len(kept) : kept[i].clientKey = r.clientKey
         IN IF Replaces(r, kept[j]) THEN [kept EXCEPT ![j] = r] ELSE kept
    ELSE Append(kept, r)

RECURSIVE DedupeFrom(_, _, _)
DedupeFrom(records, i, kept) ==
  IF i > Len(records) THEN kept
  ELSE IF records[i].clientKey = <<>> THEN DedupeFrom(records, i + 1, kept)
  ELSE DedupeFrom(records, i + 1, MapSet(kept, records[i]))

dedupeByClientKey(records) == DedupeFrom(records, 1, <<>>)

\* the operation built for one record; importedAt is new Date() at build time
buildUpsertOp(incoming, at) ==
  [incoming |-> incoming,
   incomingDate |-> DateOr0(incoming.statementDate),
   importedAt |-> at]

ProfileFields == {"fullName", "phone", "email", "address", "dateOfBirth"}
StatusFields == {"loanStatus", "statusBucket", "isExtended", "balance"}
DocFields == ProfileFields \cup StatusFields \cup {"statementDate", "lastImportedAt"}

\* the document an upsert starts from when the filter matches nothing
BaseDoc(k) == [f \in DocFields \cup {"clientKey"} |-> IF f = "clientKey" THEN k ELSE Missing]

\* { $ifNull: [x, y] }: null and missing are replaced
IfNull(x, y) == IF IsValue(x) THEN x ELSE y

\* a merge in which the write that arrives last always wins
NeedsUpdateAlways(incomingDate, prevDate) == TRUE

\* a comparison that lets a record of the same date overwrite
NeedsUpdateOrEqual(incomingDate, prevDate) == incomingDate >= prevDate

\* { $gt: ["$_incomingDate", "$_prevDate"] }
NeedsUpdate(incomingDate, prevDate) == incomingDate > prevDate

\* the value the pipeline computes for a status field (lines 128-131)
StatusValue(needsUpdate, incomingValue, stored) ==
  IF needsUpdate THEN incomingValue ELSE stored

\* a pipeline that overwrites profile fields whatever the dates are
ProfileValueOverwrites(needsUpdate, incomingValue, stored) == incomingValue

\* the value the pipeline computes for a profile field (lines 112-126)
ProfileValue(needsUpdate, incomingValue, stored) ==
  IF needsUpdate THEN incomingValue ELSE IfNull(stored, incomingValue)

\* the update pipeline of lines 101-141 applied to one document; a field whose
\* expression evaluates to missing (a reference to a field the document does
\* not have) is left out of the document
ApplyPipeline(doc, op) ==
  LET prevDate == Val(IfNull(doc.statementDate, Some(0)))
      needsUpdate == NeedsUpdate(op.incomingDate, prevDate)
  IN [f \in DOMAIN doc |->
        IF f = "clientKey" THEN op.incoming.clientKey
        ELSE IF f \in ProfileFields
          THEN ProfileValue(needsUpdate, op.incoming[f], doc[f])
        ELSE IF f \in StatusFields
          THEN StatusValue(needsUpdate, op.incoming[f], doc[f])
        ELSE IF f = "statementDate"
          THEN Some(IF needsUpdate THEN op.incomingDate ELSE prevDate)
        ELSE Some(op.importedAt)]

\* updateOne with upsert: true against the collection st, atomic per document
UpdateOne(st, op) ==
  LET k == op.incoming.clientKey
      old == IF k \in DOMAIN st THEN st[k] ELSE BaseDoc(k)
      new == ApplyPipeline(old, op)
  IN [x \in (DOMAIN st) \cup {k} |-> IF x = k THEN new ELSE st[x]]

\* what the write adds to upsertedCount + modifiedCount + matchedCount
WriteCount(st, op) ==
  LET k == op.incoming.clientKey
  IN IF k \notin DOMAIN st THEN 1
     ELSE IF ApplyPipeline(st[k], op) # st[k] THEN 2 ELSE 1

-----------------------------------------------------------------------------
(* CSVImportService.importFromFile: the stream, its handlers, processBatch *)

Runs == {1, 2}

DefaultBatchSize == 100

NoResult == <<>>

IdleRun ==
  [phase |-> "idle", file |-> <<>>, pos |-> 0, flowing |-> FALSE, batch |-> <<>>,
   pending |-> <<>>, promise |-> "none", result |-> NoResult, progress |-> <<>>,
   srcError |-> "none"]

\* no rebuild request under way
IdleRebuild == [phase |-> "idle", purgeBad |-> FALSE, ops |-> {}]

\* no GET /api/clients/me request under way
IdleMe == [phase |-> "idle", user |-> <<>>, found |-> FALSE, op |-> <<>>]

\* a handler that does not pause the stream
PauseSkipped(flowing) == flowing

\* stream.pause(): no 'data' and no 'end' event is emitted while not flowing
Pause(flowing) == FALSE

\* a handler that leaves the stream as it is instead of resuming it
ResumeForgotten(flowing) == flowing

\* stream.resume()
Resume(flowing) == TRUE

\* a test that lets the batch grow one record beyond batchSize
BatchFullLate(batch, batchSize) == Len(batch) > batchSize

\* batch.length >= this.batchSize (line 33)
BatchFull(batch, batchSize) == Len(batch) >= batchSize

\* the counters after a processBatch whose catch block counts one error
AfterBatchCountsOne(s, ctx) ==
  IF ctx.thrown \/ ctx.nfailed > 0
    THEN [s EXCEPT !.errorCount = @ + 1]
    ELSE [s EXCEPT !.processedCount = @ + ctx.changed]

\* the time new Date() shows when it is read next: a later one than at the last
\* reading, up to the horizon MaxTime, where readings coincide
Times == {IF now < MaxTime THEN now + 1 ELSE now}

\* processBatch up to the await of line 153: dedupe, build the operations, and
\* hand them to Client.bulkWrite(ops, { ordered: false })
NewFlush(kind, toProcess, at) ==
  LET deduped == dedupeByClientKey(toProcess)
  IN [kind |-> kind,
      ops |-> {buildUpsertOp(deduped[i], at) : i \in 1..Len(deduped)},
      n |-> Len(deduped),
      changed |-> 0,
      written |-> {},
      nfailed |-> 0,
      thrown |-> FALSE]

\* the counters after processBatch's try/catch (lines 155-165)
AfterBatch(s, ctx) ==
  IF ctx.thrown \/ ctx.nfailed > 0
    THEN [s EXCEPT !.errorCount = @ + ctx.n]
    ELSE [s EXCEPT !.processedCount = @ + ctx.changed]

\* a result whose success flag tells whether anything was processed
ResultSuccessIfProcessed(s) ==
  Some([totalProcessed |-> s.processedCount,
        totalErrors |-> s.errorCount,
        success |-> (s.processedCount > 0)])

\* the object of lines 58-62
Result(s) ==
  Some([totalProcessed |-> s.processedCount,
        totalErrors |-> s.errorCount,
        success |-> (s.errorCount = 0)])

RemoveAt(seq, i) == SubSeq(seq, 1, i - 1) \o SubSeq(seq, i + 1, Len(seq))

\* resolve() and reject() settle a promise once
Settle(promise, how) == IF promise = "pending" THEN how ELSE promise

\* importFromFile(filePath, { batchSize, onProgress }), lines 14-23
StartRun(r, file, bs) ==
  /\ run[r].phase = "idle"
  /\ svc' = [batchSize |-> bs, processedCount |-> 0, errorCount |-> 0]
  /\ run' = [run EXCEPT ![r] = [IdleRun EXCEPT !.phase = "open", !.file = file,
                                               !.flowing = TRUE, !.promise = "pending"]]

Start(r, file, bs) ==
  /\ StartRun(r, file, bs)
  /\ UNCHANGED <<me, loans, rb, store, now, faults, exp>>

\* stream.on("data", ...), lines 25-49, up to its first await or its return
OnData(r) ==
  /\ run[r].phase = "open"
  /\ run[r].flowing
  /\ run[r].pos < Len(run[r].file)
  /\ \E cleaned \in {cleanRow(run[r].file[run[r].pos + 1])} :
     LET paused == Pause(run[r].flowing)
     IN IF Throws(cleaned)
          THEN /\ svc' = [svc EXCEPT !.errorCount = @ + 1]
               /\ run' = [run EXCEPT ![r].pos = @ + 1, ![r].flowing = Resume(paused)]
               /\ now' = now
          ELSE \E batch1 \in {Append(run[r].batch, mapToClientSchema(cleaned))} :
                  /\ svc' = svc
                  /\ IF BatchFull(batch1, svc.batchSize)
                       THEN \E at \in Times :
                            /\ now' = at
                            /\ run' = [run EXCEPT
                                 ![r].pos = @ + 1,
                                 ![r].flowing = paused,
                                 ![r].batch = <<>>,
                                 ![r].pending = Append(@, NewFlush("data", batch1, at))]
                       ELSE /\ now' = now
                            /\ run' = [run EXCEPT
                                 ![r].pos = @ + 1,
                                 ![r].flowing = Resume(paused),
                                 ![r].batch = batch1]
  /\ UNCHANGED <<me, loans, rb, store, faults, exp>>

\* stream.on("end", ...), lines 51-66, up to its await or its resolve
OnEnd(r) ==
  /\ run[r].phase = "open"
  /\ run[r].flowing
  /\ run[r].pos = Len(run[r].file)
  /\ IF Len(run[r].batch) > 0
       THEN /\ now' \in Times
            /\ run' = [run EXCEPT
                 ![r].phase = "ended",
                 ![r].batch = <<>>,
                 ![r].pending = Append(@, NewFlush("end", run[r].batch, now'))]
       ELSE /\ now' = now
            /\ run' = [run EXCEPT
                 ![r].phase = "ended",
                 ![r].promise = Settle(@, "resolved"),
                 ![r].result = Result(svc)]
  /\ UNCHANGED <<me, loans, rb, store, svc, faults, exp>>

\* the store executes one operation of an unordered bulk write
StoreWrite(r) ==
  \E i \in 1..Len(run[r].pending) : \E op \in run[r].pending[i].ops :
    /\ store' = UpdateOne(store, op)
    /\ run' = [run EXCEPT ![r].pending[i].ops = @ \ {op},
                          ![r].pending[i].written = @ \cup {op.incoming.clientKey},
                          ![r].pending[i].changed = @ + WriteCount(store, op)]
    /\ UNCHANGED <<me, loans, rb, now, svc, faults, exp>>

\* the store reports a write error for one operation; the others still run
WriteError(r) ==
  \E i \in 1..Len(run[r].pending) : \E op \in run[r].pending[i].ops :
    /\ faults > 0
    /\ faults' = faults - 1
    /\ run' = [run EXCEPT ![r].pending[i].ops = @ \ {op},
                          ![r].pending[i].nfailed = @ + 1]
    /\ UNCHANGED <<me, loans, rb, store, now, svc, exp>>

\* the whole bulkWrite call throws before any operation ran
BulkCallError(r) ==
  \E i \in 1..Len(run[r].pending) :
    /\ faults > 0
    /\ Cardinality(run[r].pending[i].ops) = run[r].pending[i].n
    /\ faults' = faults - 1
    /\ run' = [run EXCEPT ![r].pending[i].ops = {}, ![r].pending[i].thrown = TRUE]
    /\ UNCHANGED <<me, loans, rb, store, now, svc, exp>>

\* bulkWrite settled: the rest of processBatch, then the rest of the handler
\* that awaited it (lines 37-43 for "data", lines 58-62 for "end")
FlushReturn(r) ==
  \E i \in 1..Len(run[r].pending) :
    LET ctx == run[r].pending[i]
        svc1 == AfterBatch(svc, ctx)
    IN /\ run[r].phase # "crashed"
       /\ ctx.ops = {}
       /\ svc' = svc1
       /\ IF ctx.kind = "data"
            THEN run' = [run EXCEPT
                   ![r].pending = RemoveAt(@, i),
                   ![r].progress = Append(@, [processed |-> svc1.processedCount,
                                              errors |-> svc1.errorCount]),
                   ![r].flowing = Resume(@)]
            ELSE run' = [run EXCEPT
                   ![r].pending = RemoveAt(@, i),
                   ![r].promise = Settle(@, "resolved"),
                   ![r].result = Result(svc1)]
       /\ UNCHANGED <<me, loans, rb, store, now, faults, exp>>

\* the source fails.  "parse": the csv() transform emits 'error', the listener
\* of line 68 rejects.  "read": the fs read stream emits 'error'; pipe() does not
\* forward it and line 22 attaches no listener to that stream, so the event is
\* an uncaught exception and the promise is left as it is.
SourceError(r, kind) ==
  /\ run[r].phase = "open"
  /\ faults > 0
  /\ faults' = faults - 1
  /\ IF kind = "parse"
       THEN run' = [run EXCEPT ![r].phase = "failed", ![r].srcError = kind,
                               ![r].promise = Settle(@, "rejected")]
       ELSE run' = [run EXCEPT ![r].phase = "crashed", ![r].srcError = kind]
  /\ UNCHANGED <<me, loans, rb, store, now, svc, exp>>

-----------------------------------------------------------------------------
(* Source rows *)

\* an empty cell of the extract
EmptyCell == Some(<<>>)

\* "978559684" and "966123456"
Local1 == <<"9","7","8","5","5","9","6","8","4">>
Local2 == <<"9","6","6","1","2","3","4","5","6">>

StDefaulted == <<"D","e","f","a","u","l","t","e","d">>
StFullyPaid == <<"F","u","l","l","y"," ","P","a","i","d">>

\* a dated row of borrower 1, with an address
RowOld ==
  [fullName |-> Some(<<"B","a">>), mobile |-> Some(<<"0">> \o Local1),
                   address |-> Some(<<"K">>), statusName |-> Some(StDefaulted),
                   clientBalance |-> Some(100), stmtDate |-> Some(1)]

\* a later row of borrower 1, without address, paid up
RowNew ==
  [fullName |-> Some(<<"B","a">>), mobile |-> Some(<<"0">> \o Local1),
                   statusName |-> Some(StFullyPaid), clientBalance |-> Some(50),
                   stmtDate |-> Some(2)]

\* a row of borrower 2 that carries no date at all
RowUndated ==
  [borrowerName |-> Some(<<"M","u">>), landline |-> Some(Local2),
                   email |-> Some(<<"M","@","x">>), amortDue |-> Some(70)]

\* a row whose name cell is not a string and that has no phone and no email
RowBad == [fullName |-> Some(NonText), amortDue |-> Some(5)]

\* a row with no phone, no email and no name
RowAnon == [statusName |-> Some(StDefaulted), interest |-> Some(30),
                            nextDue |-> Some(1)]

MainRows == {RowOld, RowNew, RowUndated, RowBad, RowAnon}

SeqsUpTo(S, n) == UNION {[1..k -> S] : k \in 1..n}

BatchSizes == 1..MaxBatch

NoExp == [step |-> 0]

-----------------------------------------------------------------------------
(* One import run against a store that may fail *)

Init ==
  /\ loans = <<>>
  /\ rb = IdleRebuild
  /\ me = IdleMe
  /\ store = <<>>
  /\ now = 1
  /\ svc = [batchSize |-> DefaultBatchSize, processedCount |-> 0, errorCount |-> 0]
  /\ run = [r \in Runs |-> IdleRun]
  /\ faults = MaxFaults
  /\ exp = NoExp

StartImport ==
  /\ run[1].phase = "idle"
  /\ \E file \in SeqsUpTo(MainRows, MaxRows), bs \in BatchSizes : Start(1, file, bs)
Data == OnData(1)
End == OnEnd(1)
Write == StoreWrite(1)
WriteFails == WriteError(1)
BulkFails == BulkCallError(1)
Return == FlushReturn(1)
SourceFails == \E kind \in {"parse", "read"} : SourceError(1, kind)

Next ==
  \/ StartImport
  \/ Data
  \/ End
  \/ Write
  \/ WriteFails
  \/ BulkFails
  \/ Return
  \/ SourceFails

Spec == Init /\ [][Next]_vars

-----------------------------------------------------------------------------
(* Properties of one import run *)

\* the row the data handler of run r receives next
NextRow(r) == cleanRow(run[r].file[run[r].pos + 1])

\* this step is the data handler of run r taking a row
TakesRow(r) == run[r].phase = "open" /\ run'[r].pos = run[r].pos + 1

\* this step is the continuation of run r's only pending flush
Returns(r) == Len(run[r].pending) = 1 /\ run'[r].pending = <<>>

\* C5: when a flush of N keys has exactly one failing write, the other N-1
\* records are in the store and the error counter grows by exactly 1.
C5_PartialFailureCountsOne ==
  [][\A r \in Runs :
       (Returns(r) /\ run[r].pending[1].nfailed = 1 /\ ~run[r].pending[1].thrown)
       => /\ Cardinality(run[r].pending[1].written) = run[r].pending[1].n - 1
          /\ run[r].pending[1].written \subseteq DOMAIN store
          /\ svc'.errorCount = svc.errorCount + 1]_vars

\* C6: a run whose source failed has a rejected promise.
C6_SourceErrorRejects ==
  \A r \in Runs : run[r].srcError # "none" => run[r].promise = "rejected"

C8_RowFailureIsolated ==
  [][\A r \in Runs :
       /\ (TakesRow(r) /\ Throws(NextRow(r)))
          => /\ svc'.errorCount = svc.errorCount + 1
             /\ svc'.processedCount = svc.processedCount
             /\ run'[r].batch = run[r].batch
             /\ run'[r].pending = run[r].pending
             /\ run'[r].flowing
             /\ run'[r].phase = "open"
             /\ run'[r].promise = "pending"
       /\ run'[r].promise = "rejected" => run'[r].srcError # "none"
       /\ run'[r].promise = "resolved" => run'[r].pos = Len(run'[r].file)]_vars

\* a run resolved although a row that is not its last one threw
C8_Witness ==
  \E r \in Runs :
    /\ run[r].promise = "resolved"
    /\ \E i \in 1..(Len(run[r].file) - 1) : Throws(cleanRow(run[r].file[i]))
    /\ Val(run[r].result).totalErrors >= 1

\* a cleaned row without phone, email and name
NoIdentity(csvData) ==
  /\ ~IsValue(normalizePhone(OrS(Cell(csvData, "mobile"), Cell(csvData, "landline"))))
  /\ ~IsValue(normalizeEmail(Cell(csvData, "email")))
  /\ ~IsValue(OrS(Cell(csvData, "fullName"), Cell(csvData, "borrowerName")))

\* C9: a row without phone, email and name is counted as one error, is not
\* appended to the batch, starts no flush, and no record is stored for it.
C9_NoIdentityRejected ==
  [][\A r \in Runs :
       (TakesRow(r) /\ NoIdentity(NextRow(r)))
       => /\ svc'.errorCount = svc.errorCount + 1
          /\ run'[r].batch = run[r].batch
          /\ run'[r].pending = run[r].pending
          /\ makeClientKey(NextRow(r)) \notin DOMAIN store']_vars

\* C11: every flush that completes is followed by a progress call with the
\* counters as they stand after it, the flush of the last partial batch included.
C11_ProgressAfterEveryFlush ==
  [][\A r \in Runs :
       Len(run'[r].pending) < Len(run[r].pending)
       => run'[r].progress = Append(run[r].progress,
                                    [processed |-> svc'.processedCount,
                                     errors |-> svc'.errorCount])]_vars

C13_CountersAccurate ==
  [][faults = MaxFaults
     => /\ Returns(1) => svc'.processedCount =
                           svc.processedCount + Cardinality(run[1].pending[1].written)
        /\ svc'.processedCount + svc'.errorCount <= run'[1].pos]_vars

\* C14: the operations of a flush have pairwise different keys, and a flush
\* that has not started writing holds one operation per deduplicated record.
C14_OneOpPerKey ==
  \A r \in Runs : \A i \in 1..Len(run[r].pending) :
    LET f == run[r].pending[i]
    IN /\ Cardinality({op.incoming.clientKey : op \in f.ops}) = Cardinality(f.ops)
       /\ (f.written = {} /\ f.nfailed = 0 /\ ~f.thrown) => Cardinality(f.ops) = f.n

\* a flush of two rows of one borrower holds one operation
C14_Witness ==
  /\ run[1].pos = 2
  /\ makeClientKey(cleanRow(run[1].file[1])) = makeClientKey(cleanRow(run[1].file[2]))
  /\ run[1].file[1] # run[1].file[2]
  /\ Len(run[1].pending) = 1
  /\ run[1].pending[1].n = 1
  /\ Cardinality(run[1].pending[1].ops) = 1

\* the rows of file whose normalization does not throw
GoodRows(file) == {i \in 1..Len(file) : ~Throws(cleanRow(file[i]))}

\* this step is the end handler of run r
Ends(r) == run[r].phase = "open" /\ run'[r].phase = "ended"

\* this step resolves run r
Resolves(r) == run[r].promise # "resolved" /\ run'[r].promise = "resolved"

\* C23: the pending batch never holds more than batchSize records; the data
\* handler starts a flush of the whole batch exactly when the appended record
\* brings it to batchSize, and otherwise keeps the record in the batch; the end
\* handler flushes the remainder; every flush leaves the batch empty; a run
\* resolves with nothing pending, after one flush per batchSize normalized
\* records.
C23_BatchBoundedFlushedOnce ==
  [][\A r \in Runs :
       /\ Len(run'[r].batch) <= svc'.batchSize
       /\ (TakesRow(r) /\ ~Throws(NextRow(r)))
          => LET batch1 == Append(run[r].batch, mapToClientSchema(NextRow(r)))
             IN IF Len(batch1) = svc.batchSize
                  THEN /\ run'[r].batch = <<>>
                       /\ run'[r].pending = Append(run[r].pending, NewFlush("data", batch1, now'))
                  ELSE /\ run'[r].batch = batch1
                       /\ run'[r].pending = run[r].pending
       /\ Ends(r)
          => /\ run'[r].batch = <<>>
             /\ run'[r].pending =
                  IF run[r].batch # <<>>
                    THEN Append(run[r].pending, NewFlush("end", run[r].batch, now'))
                    ELSE run[r].pending
       /\ ~(TakesRow(r) \/ Ends(r) \/ run[r].phase = "idle") => run'[r].batch = run[r].batch
       /\ Resolves(r)
          => /\ run'[r].batch = <<>>
             /\ run'[r].pending = <<>>
             /\ Len(run'[r].progress) = Cardinality(GoodRows(run[r].file)) \div svc.batchSize
             /\ (run[r].pending # <<>>)
                  = (Cardinality(GoodRows(run[r].file)) % svc.batchSize # 0)]_vars

\* a run of three rows with batchSize 2 resolved after one full flush and the
\* flush of the remaining record, and all three records are stored
C23_Witness ==
  /\ run[1].promise = "resolved"
  /\ svc.batchSize = 2
  /\ Cardinality(GoodRows(run[1].file)) = 3
  /\ Len(run[1].progress) = 1
  /\ faults = MaxFaults
  /\ Cardinality(DOMAIN store) = 3

\* C24: when the bulk-write call of a flush throws, the error counter grows by
\* the number of deduplicated keys of the flush, the processed counter and the
\* store stay as they are, the flush is not issued again, and after a flush
\* started by the data handler the stream flows again and, unless the source
\* has failed, the run is open with its promise pending.
C24_BulkFailureDegrades ==
  [][\A r \in Runs :
       (Returns(r) /\ run[r].pending[1].thrown)
       => /\ svc'.errorCount = svc.errorCount + run[r].pending[1].n
          /\ svc'.processedCount = svc.processedCount
          /\ store' = store
          /\ run[r].pending[1].written = {}
          /\ run'[r].pending = <<>>
          /\ run'[r].pos = run[r].pos
          /\ run[r].pending[1].kind = "data"
             => /\ run'[r].flowing
                /\ run[r].srcError = "none"
                   => run'[r].phase = "open" /\ run'[r].promise = "pending"]_vars

\* the bulk write of the first two records threw, the run went on, stored the
\* third record and resolved with two errors
C24_Witness ==
  /\ run[1].promise = "resolved"
  /\ Len(run[1].file) = 3
  /\ svc.batchSize = 2
  /\ Cardinality({makeClientKey(cleanRow(run[1].file[i])) : i \in GoodRows(run[1].file)}) = 3
  /\ DOMAIN store = {makeClientKey(cleanRow(run[1].file[3]))}
  /\ Val(run[1].result).totalErrors = 2
  /\ Val(run[1].result).totalProcessed = 1

-----------------------------------------------------------------------------
(* One import run whose source does not fail, under fair scheduling *)

\* two rows of one borrower, a row of another, and a row that throws
LiveRows == {RowOld, RowNew, RowUndated, RowBad}

\* the event loop delivers a 'data' or the 'end' event of a flowing stream, the
\* store settles every operation of a bulk write (it returns or throws), and the
\* continuation of a settled await runs
LiveStart ==
  /\ run[1].phase = "idle"
  /\ \E file \in SeqsUpTo(LiveRows, MaxRows), bs \in BatchSizes : Start(1, file, bs)

LiveNext ==
  \/ LiveStart
  \/ Data
  \/ End
  \/ Write
  \/ WriteFails
  \/ BulkFails
  \/ Return

SpecLive ==
  /\ Init
  /\ [][LiveNext]_vars
  /\ WF_vars(Data)
  /\ WF_vars(End)
  /\ WF_vars(Write \/ WriteFails \/ BulkFails)
  /\ WF_vars(Return)

\* C27: a run that was started eventually resolves, with every row consumed
\* and no flush pending; a stream that was paused flows again or has ended.
C27_RunTerminates ==
  /\ (run[1].phase = "open")
       ~> (run[1].promise = "resolved" /\ run[1].pos = Len(run[1].file)
                                       /\ run[1].pending = <<>>)
  /\ (run[1].phase = "open" /\ ~run[1].flowing)
       ~> (run[1].flowing \/ run[1].phase = "ended")

\* a run resolved after a row that threw, a flush whose bulk write failed and
\* the flush of a last partial batch
C27_Witness ==
  /\ run[1].promise = "resolved"
  /\ run[1].pos = 3
  /\ Throws(cleanRow(run[1].file[1]))
  /\ svc.batchSize = 1
  /\ faults = 0
  /\ Len(run[1].progress) = 2
  /\ Val(run[1].result).totalErrors = 2

-----------------------------------------------------------------------------
(* Two records merged into an empty store, in both orders *)

PhoneForms(local) == {<<"0">> \o local, local, <<"2","6","0">> \o local}

\* rows of one borrower: the phone as written in the extract (or none, then the
\* email identifies the borrower), with or without address, with or without date
MergeRows ==
  {[fullName |-> Some(<<"B","a">>), mobile |-> ph, email |-> Some(<<"B","@","x">>),
                    address |-> ad, statusName |-> Some(st), clientBalance |-> Some(bal),
                    stmtDate |-> dt] :
     ph \in {EmptyCell} \cup {Some(p) : p \in PhoneForms(Local1)},
     ad \in {EmptyCell, Some(<<"K">>)},
     st \in {StDefaulted},
     bal \in {50, 100},
     dt \in {Null} \cup {Some(d) : d \in 1..MaxDate}}

\* processBatch([record]) against the collection st: the one operation of the
\* flush, executed
MergeInto(st, record, at) ==
  LET flush == NewFlush("end", <<record>>, at)
  IN UpdateOne(st, CHOOSE op \in flush.ops : TRUE)

RecA == mapToClientSchema(cleanRow(exp.a))
RecB == mapToClientSchema(cleanRow(exp.b))

MergeInit ==
  /\ loans = <<>>
  /\ rb = IdleRebuild
  /\ me = IdleMe
  /\ store = <<>>
  /\ now = 1
  /\ svc = [batchSize |-> DefaultBatchSize, processedCount |-> 0, errorCount |-> 0]
  /\ run = [r \in Runs |-> IdleRun]
  /\ faults = 0
  /\ \E a \in MergeRows, b \in MergeRows :
       exp = [step |-> 0, a |-> a, b |-> b, ab |-> <<>>, ba |-> <<>>]

\* the first merge of each order
MergeFirst ==
  /\ exp.step = 0
  /\ exp' = [exp EXCEPT !.step = 1,
                        !.ab = MergeInto(@, RecA, now),
                        !.ba = MergeInto(@, RecB, now)]
  /\ UNCHANGED <<me, loans, rb, store, now, svc, run, faults>>

\* the second merge of each order
MergeSecond ==
  /\ exp.step = 1
  /\ exp' = [exp EXCEPT !.step = 2,
                        !.ab = MergeInto(@, RecB, now),
                        !.ba = MergeInto(@, RecA, now)]
  /\ UNCHANGED <<me, loans, rb, store, now, svc, run, faults>>

\* time passes between the merges
MergeTick ==
  /\ now < MaxTime
  /\ exp.step = 1
  /\ now' = now + 1
  /\ UNCHANGED <<me, loans, rb, store, svc, run, faults, exp>>

MergeNext ==
  \/ MergeFirst
  \/ MergeSecond
  \/ MergeTick

SpecMerge == MergeInit /\ [][MergeNext]_vars

BusinessFields == ProfileFields \cup StatusFields

\* A and B have one key and A's effective date is strictly older than B's
OlderThenNewer ==
  /\ RecA.clientKey = RecB.clientKey
  /\ DateOr0(RecA.statementDate) < DateOr0(RecB.statementDate)

\* C2 as claimed: both orders end with B's value in every business field.
C2_BothOrdersGiveB ==
  (exp.step = 2 /\ OlderThenNewer)
  => \A f \in BusinessFields :
       /\ exp.ab[RecB.clientKey][f] = RecB[f]
       /\ exp.ba[RecB.clientKey][f] = RecB[f]

\* C2 amended: both orders end with B's status fields and B's effective date;
\* a profile field ends as B's value in both orders when B has one, and when B's
\* is null it is null after [A,B] and A's value after [B,A].
C2_BothOrdersGiveBExceptNullProfile ==
  (exp.step = 2 /\ OlderThenNewer)
  => LET ab == exp.ab[RecB.clientKey]
         ba == exp.ba[RecB.clientKey]
     IN /\ \A f \in StatusFields : ab[f] = RecB[f] /\ ba[f] = RecB[f]
        /\ ab.statementDate = RecB.statementDate
        /\ ba.statementDate = RecB.statementDate
        /\ \A f \in ProfileFields :
             /\ ab[f] = RecB[f]
             /\ ba[f] = IF IsValue(RecB[f]) THEN RecB[f] ELSE RecA[f]

\* both orders were merged, and B lacks the address that A has
C2_Witness ==
  /\ exp.step = 2
  /\ OlderThenNewer
  /\ RecB.address = Null
  /\ RecA.address # Null
  /\ IsValue(RecA.statementDate)

\* C4: the record created by the first merge for a key holds the incoming
\* record's value in every business field.
C4_FirstWritePopulates ==
  exp.step = 1
  => \A f \in BusinessFields : exp.ab[RecA.clientKey][f] = RecA[f]

\* the rows carry one phone number, each in one of its written forms
SameNumber ==
  \E local \in {Local1, Local2} :
    /\ Cell(exp.a, "mobile") \in {Some(p) : p \in PhoneForms(local)}
    /\ Cell(exp.b, "mobile") \in {Some(p) : p \in PhoneForms(local)}

\* C10: rows that carry one phone number in different written forms get one
\* identity key and are merged into one Client record.
C10_PhoneFormsShareKey ==
  (exp.step = 2 /\ SameNumber)
  => /\ RecA.clientKey = RecB.clientKey
     /\ Cardinality(DOMAIN exp.ab) = 1

\* record rec is not strictly later than the stored document doc
Stale(rec, doc) == DateOr0(rec.statementDate) <= Val(doc.statementDate)

\* the status fields, the statement date and the profile fields that have a
\* value are in new as they are in old
BusinessKept(old, new) ==
  /\ \A f \in StatusFields \cup {"statementDate"} : new[f] = old[f]
  /\ \A f \in ProfileFields : IsValue(old[f]) => new[f] = old[f]

\* C19: a second merge whose record is not strictly later than the stored
\* statement date leaves the status fields, the statement date and every
\* profile field that has a value as they are.
C19_StaleMergeKeepsData ==
  [][(exp.step = 1 /\ exp'.step = 2)
     => /\ (RecB.clientKey \in DOMAIN exp.ab /\ Stale(RecB, exp.ab[RecB.clientKey]))
           => BusinessKept(exp.ab[RecB.clientKey], exp'.ab[RecB.clientKey])
        /\ (RecA.clientKey \in DOMAIN exp.ba /\ Stale(RecA, exp.ba[RecA.clientKey]))
           => BusinessKept(exp.ba[RecA.clientKey], exp'.ba[RecA.clientKey])]_vars

\* A, dated and without address, was merged first; B, of the same date, with
\* an address and another balance, was merged second: the balance is A's, the
\* address is B's
C19_Witness ==
  /\ exp.step = 2
  /\ RecA.clientKey = RecB.clientKey
  /\ IsValue(RecA.statementDate)
  /\ RecB.statementDate = RecA.statementDate
  /\ RecA.balance # RecB.balance
  /\ RecA.address = Null /\ RecB.address # Null
  /\ exp.ab[RecA.clientKey].balance = RecA.balance
  /\ exp.ab[RecA.clientKey].address = RecB.address

\* the first present of statement date, report date, 'as at' date, next-due date
FirstDate(csvData) ==
  IF IsValue(Cell(csvData, "stmtDate")) THEN Cell(csvData, "stmtDate")
  ELSE IF IsValue(Cell(csvData, "reportDate")) THEN Cell(csvData, "reportDate")
  ELSE IF IsValue(Cell(csvData, "asAt")) THEN Cell(csvData, "asAt")
  ELSE Cell(csvData, "nextDue")

\* C20: the effective date of a normalized record is the first date present on
\* its row and is never absent, and the statement date its first merge stores
\* is not the epoch.
C20_EffectiveDateNeverAbsent ==
  exp.step = 1
  => /\ IsValue(FirstDate(cleanRow(exp.a))) => RecA.statementDate = FirstDate(cleanRow(exp.a))
     /\ IsValue(RecA.statementDate)
     /\ exp.ab[RecA.clientKey].statementDate # Some(0)

-----------------------------------------------------------------------------
(* One source imported twice, the second run after the first has resolved *)

\* rows of borrower 1 with or without address and date, a row of borrower 2, and
\* a row whose normalization throws
ReimportRows ==
  {[fullName |-> Some(<<"B","a">>), mobile |-> Some(<<"0">> \o Local1),
                    address |-> ad, statusName |-> Some(StDefaulted),
                    clientBalance |-> Some(50 + 10 * DateOr0(dt) + (IF ad = EmptyCell THEN 5 ELSE 0)),
                    stmtDate |-> dt] :
     ad \in {EmptyCell, Some(<<"K">>)},
     dt \in {Null, Some(1), Some(2)}}
  \cup {RowUndated, RowBad}

ReimportInit ==
  /\ loans = <<>>
  /\ rb = IdleRebuild
  /\ me = IdleMe
  /\ store = <<>>
  /\ now = 1
  /\ svc = [batchSize |-> DefaultBatchSize, processedCount |-> 0, errorCount |-> 0]
  /\ run = [r \in Runs |-> IdleRun]
  /\ faults = 0
  /\ exp = [step |-> 0, snap |-> <<>>]

FirstImport ==
  /\ run[1].phase = "idle"
  /\ \E file \in SeqsUpTo(ReimportRows, MaxRows), bs \in BatchSizes : Start(1, file, bs)

\* the same file is imported again, later, with any batch size; the store as the
\* first run left it is remembered
SecondImport ==
  /\ run[1].promise = "resolved"
  /\ exp.step = 0
  /\ \E bs \in BatchSizes : StartRun(2, run[1].file, bs)
  /\ exp' = [step |-> 1, snap |-> store]
  /\ now' = now + 1
  /\ UNCHANGED <<me, loans, rb, store, faults>>

ImportData == \E r \in Runs : OnData(r)
ImportEnd == \E r \in Runs : OnEnd(r)
ImportWrite == \E r \in Runs : StoreWrite(r)
ImportReturn == \E r \in Runs : FlushReturn(r)

ReimportNext ==
  \/ FirstImport
  \/ SecondImport
  \/ ImportData
  \/ ImportEnd
  \/ ImportWrite
  \/ ImportReturn

SpecReimport == ReimportInit /\ [][ReimportNext]_vars

Carried(file, k, f) ==
  {mapToClientSchema(cleanRow(file[i]))[f] :
     i \in {j \in 1..Len(file) : makeClientKey(cleanRow(file[j])) = k}}

Later(a, b) == IF a >= b THEN a ELSE b

\* the greatest effective date of the rows of file that have key k; 0 is the epoch
MaxDateOf(file, k) ==
  LET dates == {DateOr0(mapToClientSchema(cleanRow(file[i])).statementDate) :
                  i \in {j \in GoodRows(file) : makeClientKey(cleanRow(file[j])) = k}}
  IN CHOOSE d \in dates \cup {0} : \A e \in dates : e <= d

\* C25: no step removes a record or moves its statementDate backwards; a
\* merge stores the later of the stored statementDate (the epoch for a new key)
\* and the effective date of its record (the epoch when it has none); and when
\* a run resolves, the statementDate of every key is the greatest effective
\* date of the rows imported for it.
C25_StatementDateIsMax ==
  [][/\ \A k \in DOMAIN store :
          /\ k \in DOMAIN store'
          /\ Val(store'[k].statementDate) >= Val(store[k].statementDate)
     /\ store' # store
        => \E r \in Runs : \E i \in 1..Len(run[r].pending) :
             \E op \in run[r].pending[i].ops \ run'[r].pending[i].ops :
               LET k == op.incoming.clientKey
                   prev == IF k \in DOMAIN store THEN Val(store[k].statementDate) ELSE 0
               IN store'[k].statementDate =
                    Some(Later(prev, DateOr0(op.incoming.statementDate)))
     /\ \A r \in Runs :
          Resolves(r)
          => \A k \in DOMAIN store' :
               store'[k].statementDate = Some(MaxDateOf(run[r].file, k))]_vars

\* the first run merged a record dated 2 and then, in a later flush, a record
\* of the same key dated 1: the statementDate is 2
C25_Witness ==
  /\ run[1].promise = "resolved"
  /\ run[2].phase = "idle"
  /\ svc.batchSize = 1
  /\ Len(run[1].file) >= 2
  /\ LET r1 == mapToClientSchema(cleanRow(run[1].file[1]))
         r2 == mapToClientSchema(cleanRow(run[1].file[2]))
     IN /\ r1.clientKey = r2.clientKey
        /\ r1.statementDate = Some(2)
        /\ r2.statementDate = Some(1)
        /\ store[r1.clientKey].statementDate = Some(2)

-----------------------------------------------------------------------------
(* Two import runs of one service instance that overlap in time *)

\* rows of borrower 1: undated, dated 1, dated 2, each with its own balance
ConcRows ==
  {[fullName |-> Some(<<"B","a">>), mobile |-> Some(<<"0">> \o Local1),
                    statusName |-> Some(StDefaulted),
                    clientBalance |-> Some(50 + 10 * DateOr0(dt)),
                    stmtDate |-> dt] :
     dt \in {Null, Some(1), Some(2)}}

ConcInit ==
  /\ loans = <<>>
  /\ rb = IdleRebuild
  /\ me = IdleMe
  /\ store = <<>>
  /\ now = 0
  /\ svc = [batchSize |-> DefaultBatchSize, processedCount |-> 0, errorCount |-> 0]
  /\ run = [r \in Runs |-> IdleRun]
  /\ faults = 0
  /\ exp = NoExp

ConcStart ==
  \E r \in Runs :
    /\ run[r].phase = "idle"
    /\ \E file \in SeqsUpTo(ConcRows, MaxConcRows), bs \in BatchSizes : Start(r, file, bs)

ConcNext ==
  \/ ConcStart
  \/ ImportData
  \/ ImportEnd
  \/ ImportWrite
  \/ ImportReturn

SpecConc == ConcInit /\ [][ConcNext]_vars

\* the records of key k that the files of the runs hold
RecordsOf(k) ==
  {rec \in UNION {{mapToClientSchema(cleanRow(run[r].file[i])) : i \in 1..Len(run[r].file)} :
                    r \in Runs} : rec.clientKey = k}

\* the status fields and the statement date of document doc are those of rec
OriginatesFrom(doc, rec) ==
  /\ \A f \in StatusFields : doc[f] = rec[f]
  /\ doc.statementDate = Some(DateOr0(rec.statementDate))

AllFinished ==
  /\ \E r \in Runs : run[r].phase # "idle"
  /\ \A r \in Runs : run[r].phase # "idle" => run[r].promise = "resolved"

\* C3: at any time the balance, status fields and statement date of a stored
\* key are those of one incoming record, and once all runs have finished that
\* record has the greatest effective date of the records merged for the key.
C3_OneRecordLatestWins ==
  \A k \in DOMAIN store :
    /\ \E rec \in RecordsOf(k) : OriginatesFrom(store[k], rec)
    /\ AllFinished
       => \E rec \in RecordsOf(k) :
            /\ OriginatesFrom(store[k], rec)
            /\ \A other \in RecordsOf(k) :
                 DateOr0(other.statementDate) <= DateOr0(rec.statementDate)

\* C18: a merge that reaches the store sets the record's lastImportedAt to the
\* processing time of its operation, and no step moves the lastImportedAt of a
\* record backwards.
C18_LastImportedAtAdvances ==
  [][/\ store' # store
        => \E r \in Runs : \E i \in 1..Len(run[r].pending) :
             \E op \in run[r].pending[i].ops \ run'[r].pending[i].ops :
               store'[op.incoming.clientKey].lastImportedAt = Some(op.importedAt)
     /\ \A k \in DOMAIN store :
          Val(store'[k].lastImportedAt) >= Val(store[k].lastImportedAt)]_vars

\* C29: the start of a run while another run is under way leaves the
\* counters that the other run reports as they are.
C29_CountersPerRun ==
  [][\A r \in Runs :
       (/\ run[r].phase = "idle"
        /\ run'[r].phase = "open"
        /\ \E q \in Runs \ {r} : run[q].promise = "pending")
       => /\ svc'.processedCount = svc.processedCount
          /\ svc'.errorCount = svc.errorCount]_vars

-----------------------------------------------------------------------------
(* The deduplicator applied to one batch *)

\* rows of two borrowers, undated or dated, with a lower or a higher balance
DedupeRows ==
  {[fullName |-> Some(<<"B","a">>), mobile |-> Some(<<"0">> \o local),
                    statusName |-> Some(StDefaulted), clientBalance |-> Some(bal),
                    stmtDate |-> dt] :
     local \in {Local1, Local2},
     bal \in {100, 150},
     dt \in {Null} \cup {Some(d) : d \in 1..MaxDate}}

DedupeInit ==
  /\ loans = <<>>
  /\ rb = IdleRebuild
  /\ me = IdleMe
  /\ store = <<>>
  /\ now = 1
  /\ svc = [batchSize |-> DefaultBatchSize, processedCount |-> 0, errorCount |-> 0]
  /\ run = [r \in Runs |-> IdleRun]
  /\ faults = 0
  /\ \E file \in SeqsUpTo(DedupeRows, MaxRows) :
       exp = [step |-> 0,
              batch |-> [i \in 1..Len(file) |-> mapToClientSchema(cleanRow(file[i]))],
              kept |-> <<>>]

\* const deduped = this.dedupeByClientKey(batch)
DedupeBatch ==
  /\ exp.step = 0
  /\ exp' = [exp EXCEPT !.step = 1, !.kept = dedupeByClientKey(exp.batch)]
  /\ UNCHANGED <<me, loans, rb, store, now, svc, run, faults>>

DedupeNext == DedupeBatch

SpecDedupe == DedupeInit /\ [][DedupeNext]_vars

\* C15: the deduplicator keeps one record of the batch per key of the batch,
\* and no record of the batch with that key has a later effective date, or the
\* same effective date and a higher balance.
C15_DedupKeepsLatestHighest ==
  exp.step = 1
  => /\ \A j \in 1..Len(exp.kept) : \E i \in 1..Len(exp.batch) : exp.kept[j] = exp.batch[i]
     /\ \A i \in 1..Len(exp.batch) :
          /\ Cardinality({j \in 1..Len(exp.kept) :
                            exp.kept[j].clientKey = exp.batch[i].clientKey}) = 1
          /\ \A j \in 1..Len(exp.kept) :
               exp.kept[j].clientKey = exp.batch[i].clientKey
               => \/ DateOr0(exp.batch[i].statementDate) < DateOr0(exp.kept[j].statementDate)
                  \/ /\ DateOr0(exp.batch[i].statementDate) = DateOr0(exp.kept[j].statementDate)
                     /\ Val(exp.batch[i].balance) <= Val(exp.kept[j].balance)

\* a batch of one key with an older record of balance 150, and two records of
\* the latest date with balances 100 and 150, was deduplicated to the last one
C15_Witness ==
  /\ exp.step = 1
  /\ Len(exp.batch) = 3
  /\ Len(exp.kept) = 1
  /\ exp.batch[1].statementDate = Some(1) /\ Val(exp.batch[1].balance) = 150
  /\ exp.batch[2].statementDate = Some(2) /\ Val(exp.batch[2].balance) = 100
  /\ exp.batch[3].statementDate = Some(2) /\ Val(exp.batch[3].balance) = 150
  /\ exp.kept[1] = exp.batch[3]

-----------------------------------------------------------------------------
(* The normalizer applied to one row *)

StClosed == <<"C","L","O","S","E","D">>
StPaidExtended == <<"P","a","i","d"," ","E","x","t","e","n","d","e","d">>
StRestructured == <<"R","e","s","t","r","u","c","t","u","r","e","d">>

\* rows of one borrower: a status or none, and any of the columns the balance
\* is computed from, the balance column also with text that is not a number
CleanRows ==
  {[c \in {"fullName", "mobile"} \cup {d \in DOMAIN cells : cells[d] # Missing} |->
      IF c = "fullName" THEN Some(<<"B","a">>)
      ELSE IF c = "mobile" THEN Some(<<"0">> \o Local1)
      ELSE cells[c]] :
     cells \in [statusName : {Missing, Some(StDefaulted), Some(StFullyPaid), Some(StClosed),
                              Some(StPaidExtended), Some(StRestructured)},
                clientBalance : {Missing, Some(50), Some(NaNCell)},
                amortDue : {Missing, Some(70)},
                interest : {Missing, Some(30)},
                penalty : {Missing, Some(20)}]}

CleanInit ==
  /\ loans = <<>>
  /\ rb = IdleRebuild
  /\ me = IdleMe
  /\ store = <<>>
  /\ now = 1
  /\ svc = [batchSize |-> DefaultBatchSize, processedCount |-> 0, errorCount |-> 0]
  /\ run = [r \in Runs |-> IdleRun]
  /\ faults = 0
  /\ \E row \in CleanRows : exp = [step |-> 0, row |-> row, rec |-> <<>>]

\* DataCleaner.mapToClientSchema(DataCleaner.cleanRow(data))
CleanOne ==
  /\ exp.step = 0
  /\ exp' = [exp EXCEPT !.step = 1, !.rec = mapToClientSchema(cleanRow(exp.row))]
  /\ UNCHANGED <<me, loans, rb, store, now, svc, run, faults>>

CleanNext == CleanOne

SpecClean == CleanInit /\ [][CleanNext]_vars

\* the status text of the row, lower-cased, holds a word of the cleared vocabulary
StatusIsCleared(row) ==
  /\ "statusName" \in DOMAIN row
  /\ \E w \in clearedWords : Includes(ToLower(Val(row.statusName)), w)

\* C16: the record of a row whose status is cleared has balance 0, whatever
\* the balance columns hold and whether or not the status is also extended.
C16_ClearedForcesZero ==
  (exp.step = 1 /\ StatusIsCleared(exp.row)) => exp.rec.balance = Some(0)

\* a paid and extended row with a balance, amortization, interest and penalty
\* was normalized to balance 0 in the extended bucket
C16_Witness ==
  /\ exp.step = 1
  /\ Cell(exp.row, "statusName") = Some(StPaidExtended)
  /\ Cell(exp.row, "clientBalance") = Some(50)
  /\ Cell(exp.row, "amortDue") = Some(70)
  /\ Cell(exp.row, "interest") = Some(30)
  /\ Cell(exp.row, "penalty") = Some(20)
  /\ exp.rec.balance = Some(0)
  /\ exp.rec.statusBucket = Some("extended")

-----------------------------------------------------------------------------
(* routes/clients.js: POST /rebuild-from-loans *)

\* String(x || "")
TextOr(x) == IF IsValue(x) THEN Val(x) ELSE <<>>

StartsWith(s, p) == Len(s) >= Len(p) /\ SubSeq(s, 1, Len(p)) = p

normalizeZMPhone(input) ==
  LET d == SelectSeq(TextOr(input), LAMBDA c : c \in Digits)
  IN IF d = <<>> THEN <<>>
     ELSE IF StartsWith(d, <<"2","6","0">>) /\ Len(d) >= 12
       THEN <<"0">> \o SubSeq(d, 4, Len(d))
     ELSE IF Len(d) = 9 THEN <<"0">> \o d
     ELSE d

UpperChar(c) ==
  IF \E i \in 1..Len(LowerOf) : LowerOf[i] = c
    THEN Upper[CHOOSE i \in 1..Len(LowerOf) : LowerOf[i] = c]
    ELSE c

\* s.split(" ").filter(Boolean)
RECURSIVE Words(_, _, _)
Words(s, i, word) ==
  IF i > Len(s) THEN (IF word = <<>> THEN <<>> ELSE <<word>>)
  ELSE IF s[i] = " "
    THEN (IF word = <<>> THEN <<>> ELSE <<word>>) \o Words(s, i + 1, <<>>)
  ELSE Words(s, i + 1, Append(word, s[i]))

RECURSIVE Join(_)
Join(words) ==
  IF words = <<>> THEN <<>>
  ELSE IF Len(words) = 1 THEN words[1]
  ELSE words[1] \o <<" ">> \o Join(Tail(words))

Titles == { <<"m","r">>, <<"m","r",".">>, <<"m","r","s">>, <<"m","r","s",".">>,
            <<"m","i","s","s">>, <<"m","s">>, <<"m","s",".">>, <<"d","r">>,
            <<"d","r",".">>, <<"p","r","o","f">>, <<"p","r","o","f",".">> }

cleanFullName(name) ==
  LET words == Words(name, 1, <<>>)
      noTitle == IF Len(words) >= 2 /\ ToLower(words[1]) \in Titles THEN Tail(words) ELSE words
  IN Join([j \in 1..Len(noTitle) |->
             <<UpperChar(noTitle[j][1])>> \o ToLower(Tail(noTitle[j]))])

\* the amounts of a Loan document are numbers or absent
toNumber(v) == IF IsValue(v) THEN Val(v) ELSE 0

PaidStatuses == { <<"f","u","l","l","y"," ","p","a","i","d">>,
                  <<"w","r","i","t","e","-","o","f","f">> }

\* a sum that leaves the penalty out
loanActualBalanceNoPenalty(loan) ==
  LET total == toNumber(loan.amortizationDue) + toNumber(loan.totalInterestBalance)
  IN IF Trim(ToLower(TextOr(loan.loanStatus))) \in PaidStatuses THEN 0
     ELSE IF total > 0 THEN total ELSE 0

loanActualBalance(loan) ==
  LET total == toNumber(loan.amortizationDue) + toNumber(loan.totalInterestBalance)
                 + toNumber(loan.penaltyAmount)
  IN IF Trim(ToLower(TextOr(loan.loanStatus))) \in PaidStatuses THEN 0
     ELSE IF total > 0 THEN total ELSE 0

\* the key the rebuild groups a loan under (lines 228-232); <<>> is ""
RebuildKey(loan) ==
  LET phone09 == normalizeZMPhone(loan.borrowerMobile)
      email == Trim(ToLower(TextOr(loan.borrowerEmail)))
  IN IF phone09 # <<>> THEN <<"phone:">> \o phone09
     ELSE IF email # <<>> THEN <<"email:">> \o email
     ELSE <<>>

\* imp && (!d || imp > d) ? imp : d
LaterOf(d, imp) ==
  IF IsValue(imp) /\ (~IsValue(d) \/ Val(imp) > Val(d)) THEN imp ELSE d

\* one iteration of the cursor loop (lines 227-263) on the groups so far
AddLoan(groups, loan) ==
  LET phone09 == normalizeZMPhone(loan.borrowerMobile)
      email == Trim(ToLower(TextOr(loan.borrowerEmail)))
      clientKey == RebuildKey(loan)
      known == \E j \in 1..Len(groups) : groups[j].clientKey = clientKey
      g == IF known
             THEN groups[CHOOSE j \in 1..Len(groups) : groups[j].clientKey = clientKey]
             ELSE [clientKey |-> clientKey, fullName |-> <<>>,
                   phone |-> IF phone09 # <<>> THEN Some(phone09) ELSE Null,
                   email |-> IF email # <<>> THEN Some(email) ELSE Null,
                   address |-> <<>>, balance |-> 0,
                   statementDate |-> Null, lastImportedAt |-> Null]
      g1 == [g EXCEPT
               !.fullName = IF @ = <<>> /\ TextOr(loan.fullName) # <<>>
                              THEN cleanFullName(TextOr(loan.fullName)) ELSE @,
               !.phone = IF ~IsValue(@) /\ phone09 # <<>> THEN Some(phone09) ELSE @,
               !.email = IF ~IsValue(@) /\ email # <<>> THEN Some(email) ELSE @,
               !.address = IF @ = <<>> /\ TextOr(loan.borrowerAddress) # <<>>
                             THEN Trim(TextOr(loan.borrowerAddress)) ELSE @,
               !.balance = @ + loanActualBalance(loan),
               !.statementDate = LaterOf(@, loan.importedAt),
               !.lastImportedAt = LaterOf(@, loan.importedAt)]
  IN IF clientKey = <<>> THEN groups
     ELSE IF known
       THEN [j \in 1..Len(groups) |-> IF groups[j].clientKey = clientKey THEN g1 ELSE groups[j]]
     ELSE Append(groups, g1)

RECURSIVE GroupsFrom(_, _, _)
GroupsFrom(ls, i, groups) ==
  IF i > Len(ls) THEN groups ELSE GroupsFrom(ls, i + 1, AddLoan(groups, ls[i]))

\* the operation of lines 272-299 for one group; at is new Date()
RebuildOp(g, at) ==
  [clientKey |-> g.clientKey,
   set |-> [fullName |-> Some(g.fullName),
            phone |-> g.phone,
            email |-> g.email,
            address |-> IF g.address # <<>> THEN Some(g.address) ELSE Null,
            balance |-> Some(g.balance),
            loanStatus |-> Some(IF g.balance > 0 THEN StUnknown ELSE StFullyPaid),
            statusBucket |-> Some(IF g.balance > 0 THEN "balance" ELSE "cleared"),
            isExtended |-> Some(FALSE),
            statementDate |-> IF IsValue(g.statementDate) THEN g.statementDate ELSE Some(at),
            lastImportedAt |-> IF IsValue(g.lastImportedAt) THEN g.lastImportedAt ELSE Some(at)]]

\* updateOne with { $set: ... } and upsert: true against the collection st
SetOne(st, op) ==
  LET k == op.clientKey
      old == IF k \in DOMAIN st THEN st[k] ELSE BaseDoc(k)
      new == [f \in DOMAIN old |-> IF f \in DOMAIN op.set THEN op.set[f] ELSE old[f]]
  IN [x \in (DOMAIN st) \cup {k} |-> IF x = k THEN new ELSE st[x]]

\* a purge that removes every record under an email key
IsEmailKey(k) == k[1] = "email:"

\* the filter of lines 208-211: an email key without "@"
IsBadEmailKey(k) ==
  /\ k[1] = "email:"
  /\ \A j \in 2..Len(k) : k[j] # "@"

\* the request arrives (line 203)
RebuildRequest ==
  /\ rb.phase = "idle"
  /\ \E purgeBad \in BOOLEAN :
       rb' = [rb EXCEPT !.phase = IF purgeBad THEN "purge" ELSE "scan", !.purgeBad = purgeBad]
  /\ UNCHANGED <<me, store, now, svc, run, faults, exp, loans>>

\* Client.deleteMany of lines 208-211
RebuildPurge ==
  /\ rb.phase = "purge"
  /\ store' = [k \in {x \in DOMAIN store : ~IsBadEmailKey(x)} |-> store[k]]
  /\ rb' = [rb EXCEPT !.phase = "scan"]
  /\ UNCHANGED <<me, now, svc, run, faults, exp, loans>>

\* the cursor loop over the Loan collection and the operations built from the
\* groups (lines 216-299); the groups are fewer than the 1000 of line 301, so
\* one bulkWrite (line 308) takes them all
RebuildScan ==
  /\ rb.phase = "scan"
  /\ now' \in Times
  /\ LET groups == GroupsFrom(loans, 1, <<>>)
     IN rb' = [rb EXCEPT !.phase = "write",
                         !.ops = {RebuildOp(groups[j], now') : j \in 1..Len(groups)}]
  /\ UNCHANGED <<me, store, svc, run, faults, exp, loans>>

\* the store executes one operation of the unordered bulk write
RebuildWrite ==
  /\ rb.phase = "write"
  /\ \E op \in rb.ops :
       /\ store' = SetOne(store, op)
       /\ rb' = [rb EXCEPT !.ops = @ \ {op}]
  /\ UNCHANGED <<me, now, svc, run, faults, exp, loans>>

\* res.json({ success: true, ... })
RebuildRespond ==
  /\ rb.phase = "write"
  /\ rb.ops = {}
  /\ rb' = [rb EXCEPT !.phase = "done"]
  /\ UNCHANGED <<me, store, now, svc, run, faults, exp, loans>>

-----------------------------------------------------------------------------
(* A rebuild of the Client collection from a Loan collection *)

\* amortizationDue, totalInterestBalance, penaltyAmount of a loan
LoanAmounts == {<<0, 0, 0>>, <<70, 30, 20>>, <<-10, 0, 0>>}

\* loans of borrower 1, the mobile written in two forms, paid or not, and a
\* loan of borrower 2, who has an email only and a loan without importedAt
LoanPool ==
  {[fullName |-> Some(<<"m","r"," ","b","a">>), borrowerMobile |-> Some(ph),
    borrowerEmail |-> Some(<<>>), borrowerAddress |-> Some(<<"K">>),
    loanStatus |-> Some(st), amortizationDue |-> Some(am[1]),
    totalInterestBalance |-> Some(am[2]), penaltyAmount |-> Some(am[3]),
    importedAt |-> Some(1)] :
     ph \in {<<"0">> \o Local1, <<"2","6","0">> \o Local1},
     st \in {StDefaulted, StFullyPaid},
     am \in LoanAmounts}
  \cup
  {[fullName |-> Some(<<"M","u">>), borrowerMobile |-> Some(<<>>),
    borrowerEmail |-> Some(<<"M","@","x">>), borrowerAddress |-> Some(<<>>),
    loanStatus |-> Some(StDefaulted), amortizationDue |-> Some(70),
    totalInterestBalance |-> Null, penaltyAmount |-> Some(20),
    importedAt |-> Null]}

\* a row whose email has no "@" and that has no phone
RowBadEmail ==
  [fullName |-> Some(<<"X">>), email |-> Some(<<"b","a","d">>), clientBalance |-> Some(5),
   stmtDate |-> Some(1)]

\* the Client collection after an import of the rows of file, one by one
RECURSIVE Imported(_, _)
Imported(file, at) ==
  IF file = <<>> THEN <<>>
  ELSE MergeInto(Imported(SubSeq(file, 1, Len(file) - 1), at),
                 mapToClientSchema(cleanRow(file[Len(file)])), at)

\* Client collections a rebuild may find: empty, or with borrower 1 cleared
\* and a record under a malformed email key
RebuildStores == {<<>>, Imported(<<RowNew, RowBadEmail>>, 1)}

RebuildInit ==
  /\ now = 1
  /\ svc = [batchSize |-> DefaultBatchSize, processedCount |-> 0, errorCount |-> 0]
  /\ run = [r \in Runs |-> IdleRun]
  /\ faults = 0
  /\ rb = IdleRebuild
  /\ me = IdleMe
  /\ store \in RebuildStores
  /\ loans \in SeqsUpTo(LoanPool, MaxLoans)
  /\ exp = [step |-> 0, snap |-> store]

RebuildNext ==
  \/ RebuildRequest
  \/ RebuildPurge
  \/ RebuildScan
  \/ RebuildWrite
  \/ RebuildRespond

SpecRebuild == RebuildInit /\ [][RebuildNext]_vars

\* the loans of the ledger grouped under key k
LoansOf(k) == {j \in 1..Len(loans) : RebuildKey(loans[j]) = k}

\* neither fully paid nor write-off
Unpaid(loan) == Trim(ToLower(TextOr(loan.loanStatus))) \notin PaidStatuses

\* amortization due + interest balance + penalty of one row
RowSum(loan) ==
  toNumber(loan.amortizationDue) + toNumber(loan.totalInterestBalance)
    + toNumber(loan.penaltyAmount)

RECURSIVE SumOver(_)
SumOver(js) ==
  IF js = {} THEN 0
  ELSE LET j == CHOOSE x \in js : TRUE IN RowSum(loans[j]) + SumOver(js \ {j})

LedgerKeys == {RebuildKey(loans[j]) : j \in 1..Len(loans)} \ {<<>>}

\* C17 as claimed: after a rebuild, a key whose loans are all unpaid has their
\* sum as balance and is in the bucket "balance".
C17_RebuildGivesSum ==
  rb.phase = "done"
  => \A k \in LedgerKeys :
       (\A j \in LoansOf(k) : Unpaid(loans[j]))
       => /\ k \in DOMAIN store
          /\ store[k].balance = Some(SumOver(LoansOf(k)))
          /\ store[k].statusBucket = Some("balance")

\* C17 amended: after a rebuild, a key whose loans are all unpaid, none with a
\* negative row sum, and whose sum is positive has that sum as balance and is
\* in the bucket "balance".
C17_RebuildGivesPositiveSum ==
  rb.phase = "done"
  => \A k \in LedgerKeys :
       (/\ \A j \in LoansOf(k) : Unpaid(loans[j]) /\ RowSum(loans[j]) >= 0
        /\ SumOver(LoansOf(k)) > 0)
       => /\ k \in DOMAIN store
          /\ store[k].balance = Some(SumOver(LoansOf(k)))
          /\ store[k].statusBucket = Some("balance")

\* a rebuild over two unpaid loans of borrower 1 replaced a cleared record
C17_Witness ==
  /\ rb.phase = "done"
  /\ \E k \in LedgerKeys \cap DOMAIN exp.snap :
       /\ Cardinality(LoansOf(k)) = 2
       /\ \A j \in LoansOf(k) : Unpaid(loans[j]) /\ RowSum(loans[j]) > 0
       /\ exp.snap[k].statusBucket = Some("cleared")
       /\ store[k].balance = Some(240)
       /\ store[k].statusBucket = Some("balance")

-----------------------------------------------------------------------------
(* The identity key of one borrower on the import path and in the rebuild *)

\* a borrower: the phone as written (or none), an email (or none), a name, and
\* a date of birth (or none)
Borrowers ==
  [phone : {<<>>} \cup PhoneForms(Local1) \cup PhoneForms(Local2),
   email : {<<>>, <<"m","@","x">>, <<"M","@","x">>},
   name : {<<"B","a">>, <<"M","u">>},
   dob : {Null} \cup {Some(d) : d \in 1..MaxDate}]

\* the row of an extract that carries the borrower
RowOf(b) ==
  [fullName |-> Some(b.name), mobile |-> Some(b.phone), email |-> Some(b.email),
   dob |-> b.dob]

\* the Loan document that carries the borrower
LoanOf(b) ==
  [fullName |-> Some(b.name), borrowerMobile |-> Some(b.phone),
   borrowerEmail |-> Some(b.email), borrowerDateOfBirth |-> b.dob,
   borrowerAddress |-> Some(<<>>), loanStatus |-> Some(StDefaulted),
   amortizationDue |-> Some(70), totalInterestBalance |-> Some(30),
   penaltyAmount |-> Some(20), importedAt |-> Some(1)]

KeysInit ==
  /\ loans = <<>>
  /\ rb = IdleRebuild
  /\ me = IdleMe
  /\ store = <<>>
  /\ now = 1
  /\ svc = [batchSize |-> DefaultBatchSize, processedCount |-> 0, errorCount |-> 0]
  /\ run = [r \in Runs |-> IdleRun]
  /\ faults = 0
  /\ \E b \in Borrowers :
       exp = [step |-> 0, borrower |-> b, importKey |-> <<>>, rebuildKey |-> <<>>]

\* DataCleaner.makeClientKey on the cleaned row, and the key of line 232
DeriveKeys ==
  /\ exp.step = 0
  /\ exp' = [exp EXCEPT !.step = 1,
                        !.importKey = makeClientKey(cleanRow(RowOf(exp.borrower))),
                        !.rebuildKey = RebuildKey(LoanOf(exp.borrower))]
  /\ UNCHANGED <<me, loans, rb, store, now, svc, run, faults>>

KeysNext == DeriveKeys

SpecKeys == KeysInit /\ [][KeysNext]_vars

\* C22: for every borrower the rebuild groups the loan under the key the
\* import path derives for the row, so no borrower the import keys is skipped.
C22_RebuildKeyIsImportKey ==
  exp.step = 1 => exp.rebuildKey = exp.importKey

-----------------------------------------------------------------------------
(* One source imported with two batch sizes into the same store *)

\* Client.bulkWrite(ops, { ordered: false }) without failures: every operation
\* is executed; the operations of a flush have different keys
RECURSIVE BulkWrite(_, _)
BulkWrite(st, ops) ==
  IF ops = {} THEN st
  ELSE LET op == CHOOSE o \in ops : TRUE
       IN BulkWrite(UpdateOne(st, op), ops \ {op})

\* the collection after importFromFile has consumed the rows of file from
\* position i on, with the pending batch and the batch size given, every flush
\* completing before the next row is taken
RECURSIVE ImportFrom(_, _, _, _, _, _)
ImportFrom(st, file, i, batch, bs, at) ==
  IF i > Len(file)
    THEN (IF Len(batch) > 0 THEN BulkWrite(st, NewFlush("end", batch, at).ops) ELSE st)
  ELSE IF Throws(cleanRow(file[i])) THEN ImportFrom(st, file, i + 1, batch, bs, at)
  ELSE LET batch1 == Append(batch, mapToClientSchema(cleanRow(file[i])))
       IN IF BatchFull(batch1, bs)
            THEN ImportFrom(BulkWrite(st, NewFlush("data", batch1, at).ops),
                            file, i + 1, <<>>, bs, at)
            ELSE ImportFrom(st, file, i + 1, batch1, bs, at)

\* rows of borrower 1, undated or dated, with a lower or a higher balance
BatchRows ==
  {[fullName |-> Some(<<"B","a">>), mobile |-> Some(<<"0">> \o Local1),
                    statusName |-> Some(StDefaulted), clientBalance |-> Some(bal),
                    stmtDate |-> dt] :
     bal \in {100, 150},
     dt \in {Null} \cup {Some(d) : d \in 1..MaxDate}}

\* the collection is empty or holds borrower 1 as of date 1
BatchStores == {<<>>, ImportFrom(<<>>, <<RowOld>>, 1, <<>>, 1, 1)}

BatchInit ==
  /\ loans = <<>>
  /\ rb = IdleRebuild
  /\ me = IdleMe
  /\ store = <<>>
  /\ now = 1
  /\ svc = [batchSize |-> DefaultBatchSize, processedCount |-> 0, errorCount |-> 0]
  /\ run = [r \in Runs |-> IdleRun]
  /\ faults = 0
  /\ \E file \in SeqsUpTo(BatchRows, MaxRows), st \in BatchStores,
        bs1 \in BatchSizes, bs2 \in BatchSizes :
       exp = [step |-> 0, file |-> file, st |-> st, bs1 |-> bs1, bs2 |-> bs2,
              out1 |-> <<>>, out2 |-> <<>>]

\* importFromFile(file, { batchSize: bs1 }) and importFromFile(file,
\* { batchSize: bs2 }), each against the collection st
ImportBoth ==
  /\ exp.step = 0
  /\ exp' = [exp EXCEPT !.step = 1,
                        !.out1 = ImportFrom(exp.st, exp.file, 1, <<>>, exp.bs1, now),
                        !.out2 = ImportFrom(exp.st, exp.file, 1, <<>>, exp.bs2, now)]
  /\ UNCHANGED <<me, loans, rb, store, now, svc, run, faults>>

BatchNext == ImportBoth

SpecBatch == BatchInit /\ [][BatchNext]_vars

\* C28: the two imports leave the same records with the same business fields.
C28_BatchSizeIndependent ==
  exp.step = 1
  => /\ DOMAIN exp.out1 = DOMAIN exp.out2
     /\ \A k \in DOMAIN exp.out1 : \A f \in BusinessFields :
          exp.out1[k][f] = exp.out2[k][f]

-----------------------------------------------------------------------------
(* routes/clients.js: GET /me, PUT /:id, DELETE /:id *)

\* phoneVariants(phone); <<>> is ""
phoneVariants(phone) ==
  LET p09 == normalizeZMPhone(Some(phone))
      local9 == IF StartsWith(p09, <<"0">>) THEN Tail(p09) ELSE p09
  IN IF p09 = <<>> THEN {} ELSE {p09, local9, <<"2","6","0">> \o local9}

\* clientKeyVariants(phone)
clientKeyVariants(phone) == {<<"phone:">> \o v : v \in phoneVariants(phone)}

\* the documents the filter of lines 426-429 matches
MatchingClients(st, user) ==
  LET userEmail == Trim(ToLower(user.email))
      userPhone09 == normalizeZMPhone(Some(user.phone))
  IN {k \in DOMAIN st :
        \/ userEmail # <<>> /\ st[k].email = Some(userEmail)
        \/ st[k].phone \in {Some(v) : v \in phoneVariants(userPhone09)}
        \/ k \in clientKeyVariants(userPhone09)}

\* the positions of the Loan documents the filter of lines 445-450 matches
MatchingLoans(ls, user) ==
  LET userEmail == Trim(ToLower(user.email))
      userPhone09 == normalizeZMPhone(Some(user.phone))
  IN {j \in 1..Len(ls) :
        \/ userEmail # <<>> /\ ls[j].borrowerEmail = Some(userEmail)
        \/ ls[j].borrowerMobile \in {Some(v) : v \in phoneVariants(userPhone09)}}

\* loans.filter(...).reduce((s, l) => s + loanActualBalance(l), 0) of line 471
RECURSIVE TotalBalance(_, _)
TotalBalance(ls, js) ==
  IF js = {} THEN 0
  ELSE LET j == CHOOSE x \in js : TRUE
       IN loanActualBalance(ls[j]) + TotalBalance(ls, js \ {j})

\* the update of lines 484-510 for a user without Client whose loans are the
\* documents at positions js; at is new Date() of line 491
SummaryOp(ls, js, user, at) ==
  LET first == ls[CHOOSE j \in js : \A x \in js : j <= x]
      userEmail == Trim(ToLower(user.email))
      userPhone09 == normalizeZMPhone(Some(user.phone))
      totalBalance == TotalBalance(ls, js)
      nameGuess == cleanFullName(IF TextOr(first.fullName) # <<>> THEN TextOr(first.fullName)
                                 ELSE IF user.name # <<>> THEN user.name
                                 ELSE <<"C","l","i","e","n","t">>)
      phoneGuess == IF userPhone09 # <<>> THEN userPhone09
                    ELSE normalizeZMPhone(first.borrowerMobile)
      emailGuess == IF userEmail # <<>> THEN userEmail
                    ELSE ToLower(TextOr(first.borrowerEmail))
  IN [clientKey |-> IF phoneGuess # <<>> THEN <<"phone:">> \o phoneGuess
                    ELSE <<"email:">> \o emailGuess,
      set |-> [clientKey |-> IF phoneGuess # <<>> THEN <<"phone:">> \o phoneGuess
                             ELSE <<"email:">> \o emailGuess,
               fullName |-> Some(nameGuess),
               phone |-> IF phoneGuess # <<>> THEN Some(phoneGuess) ELSE Null,
               email |-> IF emailGuess # <<>> THEN Some(emailGuess) ELSE Null,
               address |-> IF TextOr(first.borrowerAddress) # <<>>
                             THEN first.borrowerAddress ELSE Null,
               loanStatus |-> Some(IF totalBalance > 0 THEN StUnknown ELSE StFullyPaid),
               statusBucket |-> Some(IF totalBalance > 0 THEN "balance" ELSE "cleared"),
               isExtended |-> Some(FALSE),
               balance |-> Some(totalBalance),
               statementDate |-> Some(at),
               lastImportedAt |-> Some(at)]]

\* findOneAndUpdate with { upsert: true, setDefaultsOnInsert: true }: an insert
\* gets the schema default of the field the update does not set
SetOneWithDefaults(st, op) ==
  LET k == op.clientKey
      old == IF k \in DOMAIN st THEN st[k] ELSE [BaseDoc(k) EXCEPT !.dateOfBirth = Null]
      new == [f \in DOMAIN old |-> IF f \in DOMAIN op.set THEN op.set[f] ELSE old[f]]
  IN [x \in (DOMAIN st) \cup {k} |-> IF x = k THEN new ELSE st[x]]

\* the request of user arrives; User.findOne is awaited (lines 413-423)
MeRequest(user) ==
  /\ me.phase = "idle"
  /\ me' = [IdleMe EXCEPT !.phase = "find", !.user = user]
  /\ UNCHANGED <<store, now, svc, run, faults, exp, loans, rb>>

\* Client.findOne of lines 432-436
MeFindClient ==
  /\ me.phase = "find"
  /\ me' = [me EXCEPT !.phase = "loans", !.found = (MatchingClients(store, me.user) # {})]
  /\ UNCHANGED <<store, now, svc, run, faults, exp, loans, rb>>

\* Loan.find of lines 449-457 and the handler up to the await of line 492, or
\* to its response when there is a Client or there are no loans
MeFindLoans ==
  /\ me.phase = "loans"
  /\ LET js == MatchingLoans(loans, me.user)
     IN IF ~me.found /\ js # {}
          THEN \E at \in Times :
                 /\ now' = at
                 /\ me' = [me EXCEPT !.phase = "upsert",
                                     !.op = Some(SummaryOp(loans, js, me.user, at))]
          ELSE /\ now' = now
               /\ me' = [me EXCEPT !.phase = "done"]
  /\ UNCHANGED <<store, svc, run, faults, exp, loans, rb>>

\* the store executes the findOneAndUpdate of lines 492-510; the response
MeUpsert ==
  /\ me.phase = "upsert"
  /\ store' = SetOneWithDefaults(store, Val(me.op))
  /\ me' = [me EXCEPT !.phase = "done"]
  /\ UNCHANGED <<now, svc, run, faults, exp, loans, rb>>

\* the $set of lines 364-374 for a request body; an absent field is not set
AdminUpdate(body) ==
  [f \in DOMAIN body |->
     IF f = "fullName" THEN Some(cleanFullName(body[f]))
     ELSE IF f = "phone"
       THEN (IF normalizeZMPhone(Some(body[f])) # <<>>
               THEN Some(normalizeZMPhone(Some(body[f]))) ELSE Null)
     ELSE IF f = "balance" THEN Some(toNumber(Some(body[f])))
     ELSE IF Trim(body[f]) # <<>> THEN Some(Trim(IF f = "email" THEN ToLower(body[f]) ELSE body[f]))
     ELSE Null]

\* PUT /:id for the document that has key k: findByIdAndUpdate (line 376)
AdminPut(k, body) ==
  /\ k \in DOMAIN store
  /\ store' = SetOne(store, [clientKey |-> k, set |-> AdminUpdate(body)])
  /\ UNCHANGED <<me, now, svc, run, faults, exp, loans, rb>>

\* DELETE /:id for the document that has key k: deleteOne (line 397)
AdminDelete(k) ==
  /\ k \in DOMAIN store
  /\ store' = [x \in DOMAIN store \ {k} |-> store[x]]
  /\ UNCHANGED <<me, now, svc, run, faults, exp, loans, rb>>

-----------------------------------------------------------------------------
(* An import run, a rebuild, a GET /me request and admin edits that interleave *)

\* a row of borrower 2 that has an email and no phone
RowEmailOnly ==
  [fullName |-> Some(<<"M","u">>), email |-> Some(<<"m","@","x">>),
   clientBalance |-> Some(70), stmtDate |-> Some(1)]

\* the uploads of POST /api/imports/loans
RouteFiles == {<<RowOld>>, <<RowNew>>, <<RowEmailOnly, RowOld>>}

\* a loan of borrower 1, unpaid, and a loan of borrower 2
LoanB ==
  [fullName |-> Some(<<"B","a">>), borrowerMobile |-> Some(<<"0">> \o Local1),
   borrowerEmail |-> Some(<<>>), borrowerAddress |-> Some(<<"K">>),
   loanStatus |-> Some(StDefaulted), amortizationDue |-> Some(70),
   totalInterestBalance |-> Some(30), penaltyAmount |-> Some(20),
   importedAt |-> Some(1)]
LoanM ==
  [fullName |-> Some(<<"M","u">>), borrowerMobile |-> Some(<<>>),
   borrowerEmail |-> Some(<<"m","@","x">>), borrowerAddress |-> Some(<<>>),
   loanStatus |-> Some(StDefaulted), amortizationDue |-> Some(70),
   totalInterestBalance |-> Null, penaltyAmount |-> Some(20),
   importedAt |-> Null]

\* Loan collections the handlers may find
RouteLedgers == {<<LoanB>>, <<LoanB, LoanM>>}

\* Client collections left by earlier imports: empty, or borrower 2 under a
\* well-formed email key next to a record under a malformed one
RouteStores == {<<>>, Imported(<<RowEmailOnly, RowBadEmail>>, 1)}

\* User documents: borrower 1 with a phone, borrower 2 without
Users ==
  {[email |-> <<"b","@","x">>, phone |-> <<"0">> \o Local1, name |-> <<"B","a">>],
   [email |-> <<"m","@","x">>, phone |-> <<>>, name |-> <<>>]}

\* the bodies of the admin's PUT requests
AdminBodies == {[balance |-> 7]}

RouteInit ==
  /\ now = 1
  /\ svc = [batchSize |-> DefaultBatchSize, processedCount |-> 0, errorCount |-> 0]
  /\ run = [r \in Runs |-> IdleRun]
  /\ faults = 0
  /\ rb = IdleRebuild
  /\ me = IdleMe
  /\ store \in RouteStores
  /\ loans \in RouteLedgers
  /\ exp = [step |-> 0, snap |-> store]

\* routes/imports.js: importService.importFromFile(path, { batchSize: 100 })
RouteImport ==
  /\ run[1].phase = "idle"
  /\ \E file \in RouteFiles : Start(1, file, DefaultBatchSize)

MeGet == \E user \in Users : MeRequest(user)
AdminEdit == \E k \in DOMAIN store, body \in AdminBodies : AdminPut(k, body)
AdminRemove == \E k \in DOMAIN store : AdminDelete(k)

RouteNext ==
  \/ RouteImport
  \/ Data
  \/ End
  \/ Write
  \/ Return
  \/ RebuildRequest
  \/ RebuildPurge
  \/ RebuildScan
  \/ RebuildWrite
  \/ RebuildRespond
  \/ MeGet
  \/ MeFindClient
  \/ MeFindLoans
  \/ MeUpsert
  \/ AdminEdit
  \/ AdminRemove

SpecRoutes == RouteInit /\ [][RouteNext]_vars

\* GET /me executes its upsert, decided on the read of line 433
MeWrites == me.phase = "upsert" /\ me'.phase = "done"

\* since that read found no Client, an import merge inserted the record under
\* the key the request is about to write, and no other handler wrote it
ImportWroteSinceRead(k) ==
  /\ ~me.found
  /\ k \in clientKeyVariants(normalizeZMPhone(Some(me.user.phone)))
  /\ k \in DOMAIN store
  /\ rb.phase = "idle"
  /\ \E i \in 1..Len(run[1].pending) : k \in run[1].pending[i].written
  /\ \E row \in {RowOld, RowNew} :
       store[k] = MergeInto(<<>>, mapToClientSchema(cleanRow(row)), store[k].lastImportedAt[1])[k]

\* C21: no handler overwrites, on the basis of an earlier separate read, the
\* business fields an import merge wrote in between: when GET /me writes its
\* summary under a key that an import merge filled after the request had looked
\* for the Client, the balance, the status fields and the statement date of
\* that record stay as the import wrote them
C21_NoWriteOnStaleRead ==
  [][MeWrites /\ ImportWroteSinceRead(Val(me.op).clientKey)
       => \A f \in StatusFields \cup {"statementDate"} :
            store'[Val(me.op).clientKey][f] = store[Val(me.op).clientKey][f]]_vars

\* the keys of the filter of the purge: email keys without "@"
Malformed(k) == k[1] = "email:" /\ "@" \notin {k[j] : j \in 2..Len(k)}

\* the purge pre-pass of a rebuild executes
Purges == rb.phase = "purge" /\ rb'.phase = "scan"

\* the step of an admin DELETE: no import, rebuild or GET /me moves
AdminDeletes == run' = run /\ rb' = rb /\ me' = me /\ now' = now

\* C26: records are removed only by explicit administrative action: every
\* record is stored under its own clientKey; a purge happens only in a rebuild
\* that asked for it and removes exactly the records whose key starts with
\* "email:" and has no "@"; any other step that removes a record is an admin
\* DELETE, which removes one record; the records that stay are not altered by
\* either
C26_RemovedOnlyByAdmin ==
  [][/\ \A k \in DOMAIN store' : store'[k].clientKey = k
     /\ IF Purges
          THEN /\ rb.purgeBad
               /\ DOMAIN store' = {k \in DOMAIN store : ~Malformed(k)}
               /\ \A k \in DOMAIN store' : store'[k] = store[k]
          ELSE \/ DOMAIN store \subseteq DOMAIN store'
               \/ /\ AdminDeletes
                  /\ \E k \in DOMAIN store : DOMAIN store' = DOMAIN store \ {k}
                  /\ \A k \in DOMAIN store' : store'[k] = store[k]]_vars

\* C26 witness: a purge has removed the record under the malformed email key
\* and kept the record under the well-formed one
C26_Witness ==
  /\ rb.phase = "scan"
  /\ rb.purgeBad
  /\ exp.snap # <<>>
  /\ DOMAIN store = {k \in DOMAIN exp.snap : ~Malformed(k)}
  /\ \E k \in DOMAIN store : k[1] = "email:"
  /\ \E k \in DOMAIN exp.snap : Malformed(k)

\* the keys the repair handlers have written: those of the rebuild's executed
\* operations and the one of GET /me's executed upsert
RepairedKeys ==
  (IF rb.phase \in {"write", "done"}
     THEN {g.clientKey : g \in {GroupsFrom(loans, 1, <<>>)[j] :
                                  j \in 1..Len(GroupsFrom(loans, 1, <<>>))}}
            \ {op.clientKey : op \in rb.ops}
     ELSE {})
  \cup (IF me.phase = "done" /\ me.op # <<>> THEN {Val(me.op).clientKey} ELSE {})

\* the latest statement date imported for key k before the run, 0 if none
PriorImportedDate(k) ==
  IF k \in DOMAIN exp.snap THEN Val(IfNull(exp.snap[k].statementDate, Some(0))) ELSE 0

\* the store executes the import's operation op
Merges(op) ==
  \E i \in 1..Len(run[1].pending) :
    /\ op \in run[1].pending[i].ops
    /\ run'[1].pending[i].ops = run[1].pending[i].ops \ {op}
    /\ store' = UpdateOne(store, op)

\* C30: imports stay effective after a repair write: when the rebuild or GET
\* /me has written the record of key K, an import merge of a record for K whose
\* statement date is later than every statement date imported for K before
\* replaces the balance and the status fields of K with the record's values
C30_ImportEffectiveAfterRepair ==
  [][\A i \in 1..Len(run[1].pending) : \A op \in run[1].pending[i].ops :
       (/\ Merges(op)
        /\ op.incoming.clientKey \in RepairedKeys
        /\ op.incomingDate > PriorImportedDate(op.incoming.clientKey))
       => \A f \in StatusFields :
            store'[op.incoming.clientKey][f] = op.incoming[f]]_vars

====
